---- MODULE Spec2Model ----
(***************************************************************************)
(* vision-guard: an HTTP API (main.py) and a dashboard UI (app.py) around  *)
(* an image quality analyzer and a background remover.                     *)
(*                                                                         *)
(* Three parts share this module:                                          *)
(*   - the filename validators (SpecExt),                                  *)
(*   - the quality analyzer functions and the UI fallback (SpecQuality),   *)
(*   - the request handlers with their temporary files (Spec).             *)
(* Strings are sequences of one-character strings, so that rsplit, split   *)
(* and lower are computed as the code computes them.                       *)
(***************************************************************************)
EXTENDS Integers, Sequences, FiniteSets, TLC

VARIABLES
    fname,      \* SpecExt: the filename under test
    apiExt,     \* SpecExt: what allowed_file(fname) returned, <<>> before the call
    uiExt,      \* SpecExt: what is_valid_image_extension(fname) returned, likewise
    qfile,      \* SpecQuality: the file at image_path (Absent or its data)
    qthr,       \* SpecQuality: threshold passed to is_blurry (thousandths)
    qcall,      \* SpecQuality: the function last called, or "none"
    qout,       \* SpecQuality: what that call produced
    req,        \* Spec: per request, its handler, upload, position, temp files, response
    fs,         \* Spec: the temp directory, name -> file (Absent when there is none)
    served,     \* Spec: how many requests have arrived
    avail       \* Spec: the UI process's IMAGE_ANALYSIS_AVAILABLE, BACKGROUND_REMOVAL_AVAILABLE

extVars == <<fname, apiExt, uiExt>>
qVars == <<qfile, qthr, qcall, qout>>
hVars == <<req, fs, served, avail>>
vars == <<extVars, qVars, hVars>>

----------------------------------------------------------------------------
(* Bounds                                                                  *)

MaxNameLen == 4     \* filenames over NameAlphabet are enumerated up to this length
MaxSmallDim == 3    \* widths and heights 1..MaxSmallDim join the listed ones
MaxVarStep == 3     \* variances within MaxVarStep thousandths of each pivot
MaxRequests == 2    \* requests that arrive in one run

----------------------------------------------------------------------------
(* Strings                                                                 *)

\* str.lower() on the characters the model uses
LowerChar(c) ==
    CASE c = "P" -> "p"
      [] c = "N" -> "n"
      [] c = "G" -> "g"
      [] c = "J" -> "j"
      [] OTHER -> c

Lower(s) == [i \in 1..Len(s) |-> LowerChar(s[i])]

\* '.' in s
HasDot(s) == \E i \in 1..Len(s) : s[i] = "."

\* index of the last '.', 0 when there is none
LastDot(s) ==
    IF HasDot(s) THEN CHOOSE i \in 1..Len(s) :
                        /\ s[i] = "."
                        /\ \A j \in (i+1)..Len(s) : s[j] # "."
    ELSE 0

\* s.rsplit('.', 1)[1]: the text after the last dot (defined when s has a dot)
RSplitLast(s) == SubSeq(s, LastDot(s) + 1, Len(s))

\* s.split('.')[-1]: the text after the last dot, the whole of s without one
SplitLast(s) == SubSeq(s, LastDot(s) + 1, Len(s))

ALLOWED_EXTENSIONS ==
    { <<"p","n","g">>, <<"j","p","g">>, <<"j","p","e","g">>, <<"g","i","f">>,
      <<"b","m","p">>, <<"t","i","f","f">>, <<"w","e","b","p">> }

\* main.py allowed_file
allowed_file(filename) ==
    HasDot(filename) /\ Lower(RSplitLast(filename)) \in ALLOWED_EXTENSIONS

\* app.py is_valid_image_extension
is_valid_image_extension(filename) ==
    IF filename = <<>> THEN FALSE
    ELSE Lower(SplitLast(filename)) \in ALLOWED_EXTENSIONS

----------------------------------------------------------------------------
(* Filenames the validators are run on                                     *)

NameAlphabet == {"p", "n", "g", "P", ".", "x"}

RECURSIVE SeqsUpTo(_, _)
SeqsUpTo(S, n) ==
    IF n = 0 THEN {<<>>}
    ELSE LET shorter == SeqsUpTo(S, n - 1)
         IN shorter \cup {Append(s, c) : s \in {t \in shorter : Len(t) = n - 1}, c \in S}

Stems == { <<>>, <<"x">>, <<"p","h","o","t","o">>, <<"a",".","b">> }

Suffixes ==
    ALLOWED_EXTENSIONS \cup
    { <<"t","x","t">>, <<"J","P","G">>, <<"J","p","e","g">>, <<"p","n","g","x">>, <<>> }

Filenames ==
    SeqsUpTo(NameAlphabet, MaxNameLen)
      \cup {stem \o sep \o suf : stem \in Stems, sep \in {<<>>, <<".">>}, suf \in Suffixes}

----------------------------------------------------------------------------
(* SpecExt: both validators applied to one filename                        *)

CallAllowedFile ==
    /\ apiExt = <<>>
    /\ apiExt' = <<allowed_file(fname)>>
    /\ UNCHANGED <<fname, uiExt, qVars, hVars>>

CallIsValidImageExtension ==
    /\ uiExt = <<>>
    /\ uiExt' = <<is_valid_image_extension(fname)>>
    /\ UNCHANGED <<fname, apiExt, qVars, hVars>>

NextExt == CallAllowedFile \/ CallIsValidImageExtension

----------------------------------------------------------------------------
(* Files as the imaging libraries see them                                 *)

\* what a path that does not exist holds
Absent == [kind |-> "absent"]
Exists(f) == f.kind # "absent"

\* "good":      PIL opens, verifies and loads it; OpenCV reads it
\* "gif":       PIL opens, verifies and loads it; cv2.imread returns None
\* "truncated": PIL opens and verifies it; loading the pixels fails
\* "badcrc":    PIL reads the header; verify() fails
\* "unterminated": PIL opens and loads it, OpenCV reads it; verify() fails
\*              (a PNG cut after its image data)
\* "garbage":   PIL cannot identify it
\* "cutout":    what the background remover writes, a PNG with an alpha channel
\* "empty":     a zero-byte file, as NamedTemporaryFile leaves it
Kinds == {"good", "gif", "truncated", "badcrc", "unterminated", "garbage"}

PilOpens(d) == d.kind \in {"good", "gif", "truncated", "badcrc", "unterminated", "cutout"}
PilVerifies(d) == d.kind \in {"good", "gif", "truncated", "cutout"}
PilLoads(d) == d.kind \in {"good", "gif", "unterminated", "cutout"}
CvReads(d) == d.kind \in {"good", "unterminated", "cutout"}

\* File data: kind; w, h the pixel size; lap the Laplacian variance in
\* thousandths; tieUp whether the binary float of a variance ending in 5
\* thousandths lies above the decimal midpoint; pvar the variance of the
\* grayscale pixels; size the byte count.
FileData(k, w, h, lap, tieUp, pvar) ==
    [kind |-> k, w |-> w, h |-> h, lap |-> lap, tieUp |-> tieUp, pvar |-> pvar,
     size |-> w * h + 1]

----------------------------------------------------------------------------
(* Results of calls: a returned value or a raised exception                *)

Ok(v) == [tag |-> "ok", value |-> v]
\* msg is str(e), kept as the sequence of its parts
Raise(exc, msg) == [tag |-> "raise", exc |-> exc, msg |-> msg]
\* except Exception as e: raise Exception(f"{prefix}{str(e)}")
Wrap(prefix, r) == Raise("Exception", <<prefix>> \o r.msg)

\* round(n / d) with ties to the even neighbour, n >= 0, d > 0
RoundHalfEvenDiv(n, d) ==
    LET q == n \div d
        r == n % d
    IN  IF 2 * r < d THEN q
        ELSE IF 2 * r > d THEN q + 1
        ELSE IF q % 2 = 0 THEN q ELSE q + 1

\* round(x, 2) of a float given in thousandths, in hundredths; a value ending
\* in 5 thousandths goes the way its binary representation lies
Round2(thousandths, tieUp) ==
    LET q == thousandths \div 10
        r == thousandths % 10
    IN  IF r < 5 THEN q
        ELSE IF r > 5 THEN q + 1
        ELSE IF tieUp THEN q + 1 ELSE q

Min(a, b) == IF a <= b THEN a ELSE b

----------------------------------------------------------------------------
(* models/image_analyzer.py                                                *)

reference_pixels == 256 * 256

\* the default of is_blurry's threshold, 100.0, in thousandths
DefaultThreshold == 100000

\* resolution_score without the clamp at 100
resolution_score_unclamped(f) ==
    IF ~Exists(f) THEN Raise("FileNotFoundError", <<"Image file not found">>)
    ELSE IF ~PilOpens(f)
    THEN Wrap("Failed to analyze resolution: ",
              Raise("UnidentifiedImageError", <<"cannot identify image file">>))
    ELSE Ok(RoundHalfEvenDiv(Min(f.w * f.h, 4 * reference_pixels) * 100 * 100,
                             reference_pixels))

\* resolution_score(image_path), in hundredths
resolution_score(f) ==
    IF ~Exists(f) THEN Raise("FileNotFoundError", <<"Image file not found">>)
    ELSE IF ~PilOpens(f)
    THEN Wrap("Failed to analyze resolution: ",
              Raise("UnidentifiedImageError", <<"cannot identify image file">>))
    ELSE LET total_pixels == f.w * f.h
             \* min((total_pixels / reference_pixels) * 100, 100), rounded;
             \* the minimum is taken on the pixel count, where it is the same
             \* and the product stays in range
         IN  Ok(RoundHalfEvenDiv(Min(total_pixels, reference_pixels) * 100 * 100,
                                 reference_pixels))

\* is_blurry comparing the rounded score instead of the variance
is_blurry_on_rounded(f, threshold) ==
    IF ~Exists(f) THEN Raise("FileNotFoundError", <<"Image file not found">>)
    ELSE IF ~CvReads(f)
    THEN Wrap("Failed to analyze blur: ",
              Raise("Exception", <<"Could not read image file - may not be a valid image">>))
    ELSE Ok(Round2(f.lap, f.tieUp) * 10 < threshold)

\* is_blurry(image_path, threshold), threshold in thousandths
is_blurry(f, threshold) ==
    IF ~Exists(f) THEN Raise("FileNotFoundError", <<"Image file not found">>)
    ELSE IF ~CvReads(f)
    THEN Wrap("Failed to analyze blur: ",
              Raise("Exception", <<"Could not read image file - may not be a valid image">>))
    ELSE Ok(f.lap < threshold)

\* blur_score(image_path), in hundredths
blur_score(f) ==
    IF ~Exists(f) THEN Raise("FileNotFoundError", <<"Image file not found">>)
    ELSE IF ~CvReads(f)
    THEN Wrap("Failed to calculate blur score: ",
              Raise("Exception", <<"Could not read image file - may not be a valid image">>))
    ELSE Ok(Round2(f.lap, f.tieUp))

\* with Image.open(image_path) as img: img.verify()
OpenAndVerify(f) ==
    IF ~Exists(f) THEN Raise("FileNotFoundError", <<"No such file or directory">>)
    ELSE IF ~PilOpens(f) THEN Raise("UnidentifiedImageError", <<"cannot identify image file">>)
    ELSE IF ~PilVerifies(f) THEN Raise("SyntaxError", <<"broken data stream">>)
    ELSE Ok(TRUE)

\* analyze_image_quality(image_path) of models/image_analyzer.py
analyze_image_quality(f) ==
    LET v == OpenAndVerify(f)
        b == is_blurry(f, DefaultThreshold)
        r == resolution_score(f)
        s == blur_score(f)
        prefix == "Image quality analysis failed: "
    IN  IF v.tag = "raise" THEN Wrap(prefix, v)
        ELSE IF b.tag = "raise" THEN Wrap(prefix, b)
        ELSE IF r.tag = "raise" THEN Wrap(prefix, r)
        ELSE IF s.tag = "raise" THEN Wrap(prefix, s)
        ELSE Ok([resolution_score |-> r.value,
                 is_blurry |-> b.value,
                 blur_score |-> s.value,
                 clarity |-> IF ~b.value THEN "Clear" ELSE "Blurry"])

----------------------------------------------------------------------------
(* app.py: the analyzer used when models.image_analyzer cannot be imported *)

\* the fallback letting its exception escape
fallback_reraising(f) ==
    IF ~Exists(f) THEN Raise("FileNotFoundError", <<"No such file or directory">>)
    ELSE IF ~PilOpens(f) THEN Raise("UnidentifiedImageError", <<"cannot identify image file">>)
    ELSE IF ~PilLoads(f) THEN Raise("OSError", <<"image file is truncated">>)
    ELSE Ok([width |-> f.w, height |-> f.h, file_size |-> f.size,
             blur_score |-> f.pvar,
             blur_assessment |-> IF f.pvar > 100 THEN "Sharp"
                                 ELSE IF f.pvar < 50 THEN "Blurry" ELSE "Moderate",
             resolution_category |-> "Low",
             total_pixels |-> f.w * f.h])

\* analyze_image_quality(image_path) of app.py (format, mode and
\* aspect_ratio are left out of the record: nothing reads them)
fallback_analyze_image_quality(f) ==
    IF ~Exists(f)
    THEN Ok([error |-> <<"Analysis failed: ", "No such file or directory">>])
    ELSE IF ~PilOpens(f)
    THEN Ok([error |-> <<"Analysis failed: ", "cannot identify image file">>])
    ELSE IF ~PilLoads(f)
    THEN Ok([error |-> <<"Analysis failed: ", "image file is truncated">>])
    ELSE Ok([width |-> f.w,
             height |-> f.h,
             file_size |-> f.size,
             blur_score |-> f.pvar,
             blur_assessment |-> IF f.pvar > 100 THEN "Sharp"
                                 ELSE IF f.pvar < 50 THEN "Blurry" ELSE "Moderate",
             resolution_category |-> IF f.w * f.h > 1000000 THEN "High"
                                     ELSE IF f.w * f.h > 300000 THEN "Medium" ELSE "Low",
             total_pixels |-> f.w * f.h])

----------------------------------------------------------------------------
(* SpecQuality: one analyzer function applied to one file                  *)

Dims == (1..MaxSmallDim) \cup {16, 100, 127, 128, 255, 256, 257, 640, 1200}

LapPivots == {0, 10, 100000}
Laps == {p + d : p \in LapPivots, d \in (0 - MaxVarStep)..MaxVarStep} \cap Nat

PVars == {0, 49, 50, 75, 100, 101}

Thresholds == {DefaultThreshold, 0, 12, 99995}

QFiles ==
    {Absent}
      \cup {FileData(k, w, h, 100000, FALSE, 75) : k \in Kinds, w \in Dims, h \in Dims}
      \cup {FileData(k, 128, 128, lap, t, 75) : k \in Kinds, lap \in Laps, t \in BOOLEAN}
      \cup {FileData(k, 256, 256, 100000, FALSE, pv) : k \in Kinds, pv \in PVars}

CallResolutionScore ==
    /\ qcall = "none"
    /\ qcall' = "resolution_score"
    /\ qout' = resolution_score(qfile)
    /\ UNCHANGED <<qfile, qthr, extVars, hVars>>

CallIsBlurry ==
    /\ qcall = "none"
    /\ qcall' = "is_blurry"
    /\ qout' = is_blurry(qfile, qthr)
    /\ UNCHANGED <<qfile, qthr, extVars, hVars>>

CallBlurScore ==
    /\ qcall = "none"
    /\ qcall' = "blur_score"
    /\ qout' = blur_score(qfile)
    /\ UNCHANGED <<qfile, qthr, extVars, hVars>>

CallAnalyzeImageQuality ==
    /\ qcall = "none"
    /\ qcall' = "analyze_image_quality"
    /\ qout' = analyze_image_quality(qfile)
    /\ UNCHANGED <<qfile, qthr, extVars, hVars>>

CallFallbackAnalyze ==
    /\ qcall = "none"
    /\ qcall' = "fallback_analyze_image_quality"
    /\ qout' = fallback_analyze_image_quality(qfile)
    /\ UNCHANGED <<qfile, qthr, extVars, hVars>>

NextQuality ==
    \/ CallResolutionScore
    \/ CallIsBlurry
    \/ CallBlurScore
    \/ CallAnalyzeImageQuality
    \/ CallFallbackAnalyze

----------------------------------------------------------------------------
(* Specifications of the two function-level parts                          *)

InitExt ==
    /\ fname \in Filenames
    /\ apiExt = <<>>
    /\ uiExt = <<>>
    /\ qfile = Absent /\ qthr = DefaultThreshold /\ qcall = "done"
    /\ qout = [tag |-> "none"]
    /\ req = <<>> /\ fs = <<>> /\ served = 0 /\ avail = <<>>

InitQuality ==
    /\ qfile \in QFiles
    /\ qthr \in Thresholds
    /\ qcall = "none"
    /\ qout = [tag |-> "none"]
    /\ fname = <<>> /\ apiExt = <<>> /\ uiExt = <<>>
    /\ req = <<>> /\ fs = <<>> /\ served = 0 /\ avail = <<>>

SpecExt == InitExt /\ [][NextExt]_vars

SpecQuality == InitQuality /\ [][NextQuality]_vars

----------------------------------------------------------------------------
(* The temp directory                                                      *)

\* the threads that handle requests; each handles one request at a time
Threads == {1, 2}


\* a request makes at most two temp files, and tempfile gives every file
\* it makes a name of its own: the names are numbered by request
Names == 1..(2 * MaxRequests)
\* one fixed name for every staged upload
InputNameShared(id) == 1
InputName(id) == 2 * id - 1
OutputName(id) == 2 * id

\* a file, with the request that created it and what it created it as
File(data, r, role) == [data |-> data, creator |-> r, role |-> role]

\* the zero bytes of a file NamedTemporaryFile has just created
EmptyData == [kind |-> "empty"]

\* what a reader finds at a path
FileAt(dir, n) == IF dir[n] = Absent THEN Absent ELSE dir[n].data

\* os.path.exists(path)
PathExists(dir, n) == dir[n] # Absent

\* a cleanup that unlinks nothing
UnlinkForgotten(dir, n) == dir

\* if os.path.exists(path): os.unlink(path)
UnlinkIfExists(dir, n) == IF PathExists(dir, n) THEN [dir EXCEPT ![n] = Absent] ELSE dir

\* writing to a path; it creates the file when the path holds none
WriteFile(dir, n, data, r, role) ==
    [dir EXCEPT ![n] = IF dir[n] = Absent THEN File(data, r, role)
                       ELSE [dir[n] EXCEPT !.data = data]]

----------------------------------------------------------------------------
(* Decodability checks and the background remover                          *)

\* a decodability check that accepts whatever exists
is_valid_image_lenient(f) == Exists(f)

\* main.py is_valid_image(file_path)
is_valid_image(f) == OpenAndVerify(f).tag = "ok"

\* app.py is_valid_image_file(uploaded_file)
is_valid_image_file(data) == PilOpens(data) /\ PilVerifies(data)

\* what rembg makes of an image: the same picture with an alpha channel
Cutout(f) == [f EXCEPT !.kind = "cutout"]

\* a remover that copies the input to the output before it calls rembg, so
\* that a failed call leaves the unprocessed bytes behind
remove_background_copy_first(dir, r, input_path, output_path, delegateOk) ==
    LET f == FileAt(dir, input_path)
    IN  IF ~Exists(f)
        THEN [res |-> Raise("FileNotFoundError", <<"Input file not found">>), dir |-> dir]
        ELSE IF ~(PilLoads(f) /\ delegateOk)
        THEN [res |-> Wrap("Failed to remove background: ",
                           Raise("Exception", <<"segmentation failed">>)),
              dir |-> WriteFile(dir, output_path, f, r, "output")]
        ELSE [res |-> Ok("None"),
              dir |-> WriteFile(dir, output_path, Cutout(f), r, "output")]

\* models/background_remover.py remove_background(input_path, output_path),
\* called by request r; delegateOk: whether rembg's remove() succeeds.
\* Gives what the call raised or returned and the directory it leaves.
remove_background(dir, r, input_path, output_path, delegateOk) ==
    LET f == FileAt(dir, input_path)
    IN  IF ~Exists(f)
        THEN [res |-> Raise("FileNotFoundError", <<"Input file not found">>), dir |-> dir]
        ELSE IF ~(PilLoads(f) /\ delegateOk)
        THEN [res |-> Wrap("Failed to remove background: ",
                           Raise("Exception", <<"segmentation failed">>)),
              dir |-> dir]
        ELSE [res |-> Ok("None"),
              dir |-> WriteFile(dir, output_path, Cutout(f), r, "output")]

----------------------------------------------------------------------------
(* Requests and responses                                                  *)

\* class: "success", "client_error", "server_error", or "none" when the UI
\* has nothing to report; status: the HTTP status, 0 for the UI; body: the
\* JSON object, the attachment, or what the page shows
Response(class, status, body) == [class |-> class, status |-> status, body |-> body]

\* return jsonify({"error": msg}), 400
ClientError(msg) == Response("client_error", 400, [error |-> msg])

\* the 500 without the exception's message
ServerErrorBare(label, e) == Response("server_error", 500, [error |-> label])

\* except Exception as e: return jsonify({"error": label, "details": str(e)}), 500
ServerError(label, e) == Response("server_error", 500, [error |-> label, details |-> e.msg])

\* main.py too_large: the handler registered for 413
too_large == Response("client_error", 413, [error |-> "File too large. Maximum size is 16MB"])

\* st.error(msg) and return
UiError(msg) == Response("client_error", 0, [error |-> msg])

\* except Exception as e: st.error(f"{label}: {str(e)}")
UiFailure(label, e) == Response("server_error", 0, [error |-> label, details |-> e.msg])

\* what werkzeug raises from request.files when the body exceeds
\* MAX_CONTENT_LENGTH: it is raised inside the handler, on first access
RequestEntityTooLarge == Raise("RequestEntityTooLarge", <<"413 Request Entity Too Large">>)

\* a return statement whose value waits for the finally block
Return(resp) == [tag |-> "return", resp |-> resp]

\* werkzeug secure_filename on names over letters and dots: leading and
\* trailing dots are stripped
RECURSIVE secure_filename(_)
secure_filename(s) ==
    IF s = <<>> THEN s
    ELSE IF Head(s) = "." THEN secure_filename(Tail(s))
    ELSE IF s[Len(s)] = "." THEN secure_filename(SubSeq(s, 1, Len(s) - 1))
    ELSE s

ApiHandlers == {"analyze_image", "remove_bg"}
UiHandlers == {"show_image_analysis", "show_background_removal"}

\* the image a request uploads, one of each kind
HImage(k) ==
    FileData(k, IF k = "gif" THEN 64 ELSE 128, 128, 99997, FALSE, IF k = "gif" THEN 50 ELSE 75)

\* filename and content of the uploads tried
UploadPairs ==
    ({ <<"x",".","j","p","g">> } \X (Kinds \ {"badcrc"}))
      \cup ({ <<"p","n","g">>, <<"p","h","o","t","o",".","t","x","t">>, <<>> }
              \X {"good"})

Upload(present, oversize, filename, data, clicked) ==
    [present |-> present, oversize |-> oversize, filename |-> filename,
     data |-> data, clicked |-> clicked]

NoUpload == Upload(FALSE, FALSE, <<>>, Absent, FALSE)

\* a multipart POST: with or without the 'image' field, within or over the
\* 16 MB cap
ApiUploads ==
    {Upload(TRUE, FALSE, p[1], HImage(p[2]), FALSE) : p \in UploadPairs}
      \cup {NoUpload, Upload(TRUE, TRUE, <<"x",".","j","p","g">>, HImage("good"), FALSE)}

\* a run of the page: no file yet, a file shown, or a file and the button
\* pressed
UiUploads ==
    {Upload(TRUE, FALSE, p[1], HImage(p[2]), TRUE) : p \in UploadPairs}
      \cup {NoUpload, Upload(TRUE, FALSE, <<"x",".","j","p","g">>, HImage("good"), FALSE)}

UploadsOf(h) == IF h \in ApiHandlers THEN ApiUploads ELSE UiUploads

NoPending == [tag |-> "none"]

\* a thread's request: id its number (0: none yet), pc the handler's
\* position, inTemp and outTemp its temp file names (0: none), pending the
\* return value or exception on its way out, resp the responses sent, log
\* the steps taken
IdleRequest ==
    [id |-> 0, pc |-> "idle", handler |-> "none", upload |-> NoUpload, inTemp |-> 0,
     outTemp |-> 0, pending |-> NoPending, resp |-> <<>>, log |-> <<>>]

NewRequest(id, h, u) == [IdleRequest EXCEPT !.id = id, !.pc = "check", !.handler = h, !.upload = u]

\* the handler returns resp, having done the steps named in events
Finish(q, resp, events) ==
    [q EXCEPT !.pc = "done",
              !.resp = Append(@, resp),
              !.log = @ \o events \o <<"respond">>]

\* the handler moves on to step pc, having done the steps named in events
Goto(q, pc, events) == [q EXCEPT !.pc = pc, !.log = @ \o events]

InFlight(t) == req[t].pc \notin {"idle", "done"}

\* a request can start on thread t: t is free, and is the first free thread
CanBegin(t) ==
    /\ served < MaxRequests
    /\ ~InFlight(t)
    /\ \A o \in Threads : o < t => InFlight(o)

funcVars == <<extVars, qVars>>

----------------------------------------------------------------------------
(* main.py: POST /analyze and POST /remove-background                      *)

\* the checks both routes make before they touch the disk (lines 50-63 and
\* 103-116); label is the route's "error" text for a caught exception
ApiRequestChecks(q, label) ==
    LET u == q.upload
    IN  IF u.oversize
        THEN Finish(q, ServerError(label, RequestEntityTooLarge), <<>>)
        ELSE IF ~u.present
        THEN Finish(q, ClientError("No image file provided"), <<>>)
        ELSE IF u.filename = <<>>
        THEN Finish(q, ClientError("No file selected"), <<>>)
        ELSE IF ~allowed_file(u.filename)
        THEN Finish(q, ClientError("Invalid file type"), <<"ext_fail">>)
        ELSE Goto(q, "stage", <<"ext_ok">>)

\* a route that goes on to the processor whatever is_valid_image says
ApiValidateIgnored(q, dir, next) ==
    IF ~is_valid_image(FileAt(dir, q.inTemp))
    THEN Goto(q, next, <<"decode_fail">>)
    ELSE Goto(q, next, <<"decode_ok">>)

\* is_valid_image(temp) and the 400 it leads to (lines 72-73 and 128-129)
ApiValidate(q, dir, next) ==
    IF ~is_valid_image(FileAt(dir, q.inTemp))
    THEN [Goto(q, "cleanup", <<"decode_fail">>)
            EXCEPT !.pending = Return(ClientError("File is not a valid image"))]
    ELSE Goto(q, next, <<"decode_ok">>)

\* leaving the try blocks: the pending return value, or the 500 of the
\* outer except
ApiLeave(q, label) ==
    IF q.pending.tag = "raise" THEN Finish(q, ServerError(label, q.pending), <<>>)
    ELSE Finish(q, q.pending.resp, <<>>)

AnalyzeCheck(r) ==
    /\ CanBegin(r)
    /\ served' = served + 1
    /\ \E u \in ApiUploads :
         req' = [req EXCEPT ![r] = ApiRequestChecks(NewRequest(served + 1, "analyze_image", u),
                                                     "Analysis failed")]
    /\ UNCHANGED <<fs, avail, funcVars>>

AnalyzeStage(r) ==
    /\ req[r].pc = "stage" /\ req[r].handler = "analyze_image"
    /\ fs' = WriteFile(fs, InputName(req[r].id), req[r].upload.data, req[r].id, "input")
    /\ req' = [req EXCEPT ![r] = [Goto(@, "validate", <<"staged">>)
                                    EXCEPT !.inTemp = InputName(req[r].id)]]
    /\ UNCHANGED <<served, avail, funcVars>>

AnalyzeValidate(r) ==
    /\ req[r].pc = "validate" /\ req[r].handler = "analyze_image"
    /\ req' = [req EXCEPT ![r] = ApiValidate(@, fs, "process")]
    /\ UNCHANGED <<fs, served, avail, funcVars>>

AnalyzeRun(r) ==
    /\ req[r].pc = "process" /\ req[r].handler = "analyze_image"
    /\ LET res == analyze_image_quality(FileAt(fs, req[r].inTemp))
           json == [resolution_score |-> res.value.resolution_score,
                    is_blurry |-> res.value.is_blurry,
                    blur_score |-> res.value.blur_score,
                    clarity |-> res.value.clarity,
                    filename |-> secure_filename(req[r].upload.filename),
                    status |-> "success"]
       IN req' = [req EXCEPT ![r] =
                    [Goto(@, "cleanup", <<"analyzer">>)
                       EXCEPT !.pending = IF res.tag = "raise" THEN res
                                          ELSE Return(Response("success", 200, json))]]
    /\ UNCHANGED <<fs, served, avail, funcVars>>

AnalyzeCleanup(r) ==
    /\ req[r].pc = "cleanup" /\ req[r].handler = "analyze_image"
    /\ fs' = UnlinkIfExists(fs, req[r].inTemp)
    /\ req' = [req EXCEPT ![r] = ApiLeave(Goto(@, "leave", <<"unlink_input">>),
                                          "Analysis failed")]
    /\ UNCHANGED <<served, avail, funcVars>>

RemoveBgCheck(r) ==
    /\ CanBegin(r)
    /\ served' = served + 1
    /\ \E u \in ApiUploads :
         req' = [req EXCEPT ![r] = ApiRequestChecks(NewRequest(served + 1, "remove_bg", u),
                                                     "Background removal failed")]
    /\ UNCHANGED <<fs, avail, funcVars>>

RemoveBgStage(r) ==
    /\ req[r].pc = "stage" /\ req[r].handler = "remove_bg"
    /\ fs' = WriteFile(WriteFile(fs, OutputName(req[r].id), EmptyData, req[r].id, "output"),
                       InputName(req[r].id), req[r].upload.data, req[r].id, "input")
    /\ req' = [req EXCEPT ![r] = [Goto(@, "validate", <<"staged">>)
                                    EXCEPT !.inTemp = InputName(req[r].id),
                                           !.outTemp = OutputName(req[r].id)]]
    /\ UNCHANGED <<served, avail, funcVars>>

RemoveBgValidate(r) ==
    /\ req[r].pc = "validate" /\ req[r].handler = "remove_bg"
    /\ req' = [req EXCEPT ![r] = ApiValidate(@, fs, "process")]
    /\ UNCHANGED <<fs, served, avail, funcVars>>

RemoveBgRun(r) ==
    /\ req[r].pc = "process" /\ req[r].handler = "remove_bg"
    /\ \E delegateOk \in BOOLEAN :
         LET out == remove_background(fs, req[r].id, req[r].inTemp, req[r].outTemp, delegateOk)
             sent == [attachment |-> FileAt(out.dir, req[r].outTemp),
                      download_name |-> <<"n","o","_","b","g","_">>
                                          \o secure_filename(req[r].upload.filename)
                                          \o <<".","p","n","g">>]
         IN /\ fs' = out.dir
            /\ req' = [req EXCEPT ![r] =
                         [Goto(@, "cleanup", <<"remover">>)
                            EXCEPT !.pending = IF out.res.tag = "raise" THEN out.res
                                               ELSE Return(Response("success", 200, sent))]]
    /\ UNCHANGED <<served, avail, funcVars>>

\* the finally block unlinks input_temp only; nothing unlinks output_temp
RemoveBgCleanup(r) ==
    /\ req[r].pc = "cleanup" /\ req[r].handler = "remove_bg"
    /\ fs' = UnlinkIfExists(fs, req[r].inTemp)
    /\ req' = [req EXCEPT ![r] = ApiLeave(Goto(@, "leave", <<"unlink_input">>),
                                          "Background removal failed")]
    /\ UNCHANGED <<served, avail, funcVars>>

----------------------------------------------------------------------------
(* app.py: the Image Analysis and Background Removal pages                 *)

\* what both pages do with an uploaded file before the disk is touched
\* (lines 143-175 and 247-279): the extension check, the preview, the
\* button, the validity check
UiRequestChecks(q) ==
    LET u == q.upload
    IN  IF ~u.present
        THEN Finish(q, Response("none", 0, [shown |-> "uploader"]), <<>>)
        ELSE IF ~is_valid_image_extension(u.filename)
        THEN Finish(q, UiError("Invalid file type"), <<"ext_fail">>)
        ELSE IF ~(PilOpens(u.data) /\ PilLoads(u.data))
        THEN Finish(q, UiError("Error loading image"), <<"ext_ok", "preview_fail">>)
        ELSE IF ~u.clicked
        THEN Finish(q, Response("none", 0, [shown |-> "preview"]), <<"ext_ok", "preview_ok">>)
        ELSE IF ~is_valid_image_file(u.data)
        THEN Finish(q, UiError("File is not a valid image."),
                    <<"ext_ok", "preview_ok", "decode_fail">>)
        ELSE Goto(q, "stage", <<"ext_ok", "preview_ok", "decode_ok">>)

\* leaving the try blocks: what the page shows, or the st.error of the
\* outer except
UiLeave(q, label) ==
    IF q.pending.tag = "raise" THEN Finish(q, UiFailure(label, q.pending), <<>>)
    ELSE Finish(q, q.pending.resp, <<>>)

UiAnalysisCheck(r) ==
    /\ CanBegin(r)
    /\ served' = served + 1
    /\ \E u \in UiUploads :
         req' = [req EXCEPT ![r] = UiRequestChecks(NewRequest(served + 1, "show_image_analysis", u))]
    /\ UNCHANGED <<fs, avail, funcVars>>

UiAnalysisStage(r) ==
    /\ req[r].pc = "stage" /\ req[r].handler = "show_image_analysis"
    /\ fs' = WriteFile(fs, InputName(req[r].id), req[r].upload.data, req[r].id, "input")
    /\ req' = [req EXCEPT ![r] = [Goto(@, "process", <<"staged">>)
                                    EXCEPT !.inTemp = InputName(req[r].id)]]
    /\ UNCHANGED <<served, avail, funcVars>>

\* analyze_image_quality is the imported analyzer, or the fallback when the
\* import failed
UiAnalysisRun(r) ==
    /\ req[r].pc = "process" /\ req[r].handler = "show_image_analysis"
    /\ LET f == FileAt(fs, req[r].inTemp)
           res == IF avail.analysis THEN analyze_image_quality(f)
                  ELSE fallback_analyze_image_quality(f)
           page == [message |-> "Analysis completed!", results |-> res.value]
       IN req' = [req EXCEPT ![r] =
                    [Goto(@, "cleanup", <<"analyzer">>)
                       EXCEPT !.pending = IF res.tag = "raise" THEN res
                                          ELSE Return(Response("success", 0, page))]]
    /\ UNCHANGED <<fs, served, avail, funcVars>>

UiAnalysisCleanup(r) ==
    /\ req[r].pc = "cleanup" /\ req[r].handler = "show_image_analysis"
    /\ fs' = UnlinkIfExists(fs, req[r].inTemp)
    /\ req' = [req EXCEPT ![r] = UiLeave(Goto(@, "leave", <<"unlink_input">>),
                                         "Analysis failed")]
    /\ UNCHANGED <<served, avail, funcVars>>

\* the page returns at once when rembg could not be imported
UiRemoveBgCheck(r) ==
    /\ CanBegin(r)
    /\ served' = served + 1
    /\ \E u \in UiUploads :
         LET q == NewRequest(served + 1, "show_background_removal", u)
         IN req' = [req EXCEPT ![r] =
                      IF ~avail.removal
                      THEN Finish(q, Response("none", 0, [shown |-> "unavailable"]), <<>>)
                      ELSE UiRequestChecks(q)]
    /\ UNCHANGED <<fs, avail, funcVars>>

UiRemoveBgStage(r) ==
    /\ req[r].pc = "stage" /\ req[r].handler = "show_background_removal"
    /\ fs' = WriteFile(WriteFile(fs, OutputName(req[r].id), EmptyData, req[r].id, "output"),
                       InputName(req[r].id), req[r].upload.data, req[r].id, "input")
    /\ req' = [req EXCEPT ![r] = [Goto(@, "process", <<"staged">>)
                                    EXCEPT !.inTemp = InputName(req[r].id),
                                           !.outTemp = OutputName(req[r].id)]]
    /\ UNCHANGED <<served, avail, funcVars>>

UiRemoveBgRun(r) ==
    /\ req[r].pc = "process" /\ req[r].handler = "show_background_removal"
    /\ \E delegateOk \in BOOLEAN :
         LET out == remove_background(fs, req[r].id, req[r].inTemp, req[r].outTemp, delegateOk)
             page == [message |-> "Background removal completed!",
                      image |-> FileAt(out.dir, req[r].outTemp),
                      download |-> FileAt(out.dir, req[r].outTemp)]
         IN /\ fs' = out.dir
            /\ req' = [req EXCEPT ![r] =
                         [Goto(@, "cleanup", <<"remover">>)
                            EXCEPT !.pending = IF out.res.tag = "raise" THEN out.res
                                               ELSE Return(Response("success", 0, page))]]
    /\ UNCHANGED <<served, avail, funcVars>>

UiRemoveBgCleanup(r) ==
    /\ req[r].pc = "cleanup" /\ req[r].handler = "show_background_removal"
    /\ fs' = UnlinkIfExists(UnlinkIfExists(fs, req[r].inTemp), req[r].outTemp)
    /\ req' = [req EXCEPT ![r] = UiLeave(Goto(@, "leave", <<"unlink_input", "unlink_output">>),
                                         "Background removal failed")]
    /\ UNCHANGED <<served, avail, funcVars>>

----------------------------------------------------------------------------
(* Something outside the program removes a temp file                       *)

\* the staged uploads of the requests in flight
InUse == {req[t].inTemp : t \in {o \in Threads : InFlight(o)}}

\* a staged upload disappears while its handler is still at work (the loss
\* of an output file changes no response: remove_background writes the
\* output whatever the path held)
TempCleaner ==
    /\ \E n \in Names \cap InUse :
         /\ PathExists(fs, n)
         /\ fs' = [fs EXCEPT ![n] = Absent]
    /\ UNCHANGED <<req, served, avail, funcVars>>

----------------------------------------------------------------------------
(* Spec: the handlers, on an empty temp directory                          *)

Init ==
    /\ req = [t \in Threads |-> IdleRequest]
    /\ fs = [n \in Names |-> Absent]
    /\ served = 0
    /\ avail \in [analysis : BOOLEAN, removal : BOOLEAN]
    /\ fname = <<>> /\ apiExt = <<>> /\ uiExt = <<>>
    /\ qfile = Absent /\ qthr = DefaultThreshold /\ qcall = "done"
    /\ qout = [tag |-> "none"]

Next ==
    \/ \E t \in Threads : AnalyzeCheck(t)
    \/ \E t \in Threads : AnalyzeStage(t)
    \/ \E t \in Threads : AnalyzeValidate(t)
    \/ \E t \in Threads : AnalyzeRun(t)
    \/ \E t \in Threads : AnalyzeCleanup(t)
    \/ \E t \in Threads : RemoveBgCheck(t)
    \/ \E t \in Threads : RemoveBgStage(t)
    \/ \E t \in Threads : RemoveBgValidate(t)
    \/ \E t \in Threads : RemoveBgRun(t)
    \/ \E t \in Threads : RemoveBgCleanup(t)
    \/ \E t \in Threads : UiAnalysisCheck(t)
    \/ \E t \in Threads : UiAnalysisStage(t)
    \/ \E t \in Threads : UiAnalysisRun(t)
    \/ \E t \in Threads : UiAnalysisCleanup(t)
    \/ \E t \in Threads : UiRemoveBgCheck(t)
    \/ \E t \in Threads : UiRemoveBgStage(t)
    \/ \E t \in Threads : UiRemoveBgRun(t)
    \/ \E t \in Threads : UiRemoveBgCleanup(t)
    \/ TempCleaner

Spec == Init /\ [][Next]_vars

----------------------------------------------------------------------------
(* Claims about the validators (SpecExt)                                   *)

\* the rule of the design: a dot, and an allowed suffix after the last dot
ExtensionRule(filename) ==
    /\ \E i \in 1..Len(filename) : filename[i] = "."
    /\ \E e \in ALLOWED_EXTENSIONS :
         \E i \in 1..Len(filename) :
            /\ filename[i] = "."
            /\ Len(filename) - i = Len(e)
            /\ \A j \in 1..Len(e) : LowerChar(filename[i + j]) = e[j]

\* C7: allowed_file and is_valid_image_extension both return true exactly
\* when the filename has a dot and an allowed suffix after its last dot
\* (false for the empty name), and so agree on every filename.
C7_ValidatorsFollowRule ==
    /\ apiExt # <<>> => apiExt[1] = ExtensionRule(fname)
    /\ uiExt # <<>> => uiExt[1] = ExtensionRule(fname)
    /\ (apiExt # <<>> /\ uiExt # <<>>) => apiExt[1] = uiExt[1]

----------------------------------------------------------------------------
(* Claims about the request handlers (Spec)                                *)

Done(t) == req[t].pc = "done"
Did(t, e) == \E i \in DOMAIN req[t].log : req[t].log[i] = e
Times(t, e) == Cardinality({i \in DOMAIN req[t].log : req[t].log[i] = e})
AllQuiet == \A t \in Threads : ~InFlight(t)

\* the request was handled by a page or route that looked at the upload
Looked(t) ==
    /\ req[t].upload.present
    /\ ~req[t].upload.oversize
    /\ req[t].handler = "show_background_removal" => avail.removal

\* C1: in every handler, once the upload has been staged to a temporary
\* input file, that file no longer exists when the handler returns, on
\* every exit path; so an input temp file that exists belongs to a request
\* still in flight.
C1_InputTempRemoved ==
    /\ \A t \in Threads :
          (Done(t) /\ Did(t, "staged")) =>
              /\ req[t].inTemp = InputName(req[t].id)
              /\ ~PathExists(fs, req[t].inTemp)
    /\ \A n \in Names :
          (PathExists(fs, n) /\ fs[n].role = "input") =>
              \E t \in Threads : InFlight(t) /\ req[t].id = fs[n].creator

\* POST /remove-background has returned the 500 of a failed removal, after
\* staging, and its input temp file is gone
C1_Witness ==
    \E t \in Threads :
        /\ Done(t) /\ req[t].handler = "remove_bg"
        /\ Did(t, "staged") /\ Did(t, "remover")
        /\ req[t].resp[1].status = 500
        /\ ~PathExists(fs, req[t].inTemp)

\* C2: once every request has been fully handled, no temp file is left:
\* the output temp file of a background removal is deleted too, on success
\* and on failure.
C2_NoLeftoverTempFiles ==
    AllQuiet => \A n \in Names : ~PathExists(fs, n)

\* C3: an API request whose body exceeds the 16 MB cap is answered with 413
\* and the body-too-large error, never 500 or 400, and nothing is staged,
\* validated or processed for it.
C3_OversizeGets413 ==
    \A t \in Threads :
        (Done(t) /\ req[t].handler \in ApiHandlers /\ req[t].upload.oversize) =>
            /\ req[t].resp = <<too_large>>
            /\ req[t].log = <<"respond">>
            /\ \A n \in Names : PathExists(fs, n) => fs[n].creator # req[t].id

\* what a handler's decodability check must refuse
Undecodable(data) == ~(PilOpens(data) /\ PilVerifies(data))

C5_BadExtensionStopsEarly ==
    \A t \in Threads :
        ( /\ Done(t) /\ Looked(t)
          /\ req[t].upload.filename # <<>>
          /\ ~ExtensionRule(req[t].upload.filename) ) =>
            /\ req[t].log = <<"ext_fail", "respond">>
            /\ Len(req[t].resp) = 1
            /\ req[t].resp[1].class = "client_error"

\* C6: when analyze_image_quality or remove_background raises while an API
\* route is handling a request, the request ends with exactly one response,
\* of status 500, whose JSON has an error field and a details field with
\* the exception's message; never 200 or 400; and the call is not retried.
C6_ProcessorExceptionIs500 ==
    \A t \in Threads :
        (Done(t) /\ req[t].handler \in ApiHandlers /\ req[t].pending.tag = "raise") =>
            /\ Len(req[t].resp) = 1
            /\ req[t].resp[1].status = 500
            /\ DOMAIN req[t].resp[1].body = {"error", "details"}
            /\ req[t].resp[1].body.details = req[t].pending.msg
            /\ req[t].resp[1].body.error =
                  (IF req[t].handler = "analyze_image" THEN "Analysis failed"
                   ELSE "Background removal failed")
            /\ Times(t, "analyzer") + Times(t, "remover") = 1
            /\ Times(t, "respond") = 1

\* POST /remove-background has answered 500 after remove_background raised
\* FileNotFoundError for a staged upload that had disappeared
C6_Witness ==
    \E t \in Threads :
        /\ Done(t) /\ req[t].handler = "remove_bg"
        /\ req[t].pending.tag = "raise" /\ req[t].pending.exc = "FileNotFoundError"
        /\ Did(t, "remover")
        /\ req[t].resp[1].status = 500
        /\ req[t].resp[1].body.details = <<"Input file not found">>

----------------------------------------------------------------------------
(* Claims about the analyzer functions (SpecQuality)                       *)

\* C8 as claimed: is_blurry is true iff the value blur_score returns is
\* below the threshold; in a result of analyze_image_quality, is_blurry
\* iff the reported blur_score < 100.0, and clarity follows is_blurry.
C8_BlurryIffReportedScoreBelow ==
    /\ (qcall = "is_blurry" /\ qout.tag = "ok") =>
          (qout.value <=> blur_score(qfile).value * 10 < qthr)
    /\ (qcall = "analyze_image_quality" /\ qout.tag = "ok") =>
          /\ qout.value.is_blurry <=> qout.value.blur_score * 10 < DefaultThreshold
          /\ qout.value.clarity = "Blurry" <=> qout.value.is_blurry

\* C8 amended: is_blurry is true iff the unrounded Laplacian variance is
\* below the threshold; in a result of analyze_image_quality, is_blurry iff
\* the variance < 100.0, the reported (rounded) blur_score is below 100.0
\* only if is_blurry and at most 100.0 if is_blurry, and clarity is
\* "Blurry" iff is_blurry, "Clear" otherwise.
C8_BlurryIffVarianceBelow ==
    /\ (qcall = "is_blurry" /\ qout.tag = "ok") =>
          (qout.value <=> qfile.lap < qthr)
    /\ (qcall = "analyze_image_quality" /\ qout.tag = "ok") =>
          /\ qout.value.is_blurry <=> qfile.lap < DefaultThreshold
          /\ qout.value.blur_score * 10 < DefaultThreshold => qout.value.is_blurry
          /\ qout.value.is_blurry => qout.value.blur_score * 10 <= DefaultThreshold
          /\ qout.value.clarity = (IF qout.value.is_blurry THEN "Blurry" ELSE "Clear")

\* an analysis that reports is_blurry together with a blur_score of 100.0
C8_Witness ==
    /\ qcall = "analyze_image_quality"
    /\ qout.tag = "ok"
    /\ qout.value.is_blurry
    /\ qout.value.blur_score = 100 * 100
    /\ qout.value.clarity = "Blurry"

\* C9: resolution_score returns min(w*h*100/65536, 100) rounded to 2
\* decimals, within [0,100]: 100.0 for 256x256, 25.0 for 128x128, 100.0
\* whenever w*h >= 65536; FileNotFoundError for a missing path, a wrapped
\* processing error when the dimensions cannot be read.
C9_ResolutionScore ==
    qcall = "resolution_score" =>
        /\ ~Exists(qfile) =>
              qout.tag = "raise" /\ qout.exc = "FileNotFoundError"
        /\ (Exists(qfile) /\ ~PilOpens(qfile)) =>
              /\ qout.tag = "raise" /\ qout.exc = "Exception"
              /\ qout.msg[1] = "Failed to analyze resolution: "
        /\ (Exists(qfile) /\ PilOpens(qfile)) =>
              /\ qout.tag = "ok"
              /\ qout.value \in 0..(100 * 100)
              /\ (qfile.w = 256 /\ qfile.h = 256) => qout.value = 100 * 100
              /\ (qfile.w = 128 /\ qfile.h = 128) => qout.value = 25 * 100
              /\ qfile.w * qfile.h >= 65536 => qout.value = 100 * 100
              /\ qfile.w * qfile.h < 65536 =>
                    LET exact == qfile.w * qfile.h * 100 * 100
                        got == qout.value * 65536
                    IN  2 * (IF got >= exact THEN got - exact ELSE exact - got) <= 65536

\* resolution_score has returned 25.0 for a 128x128 image
C9_Witness ==
    /\ qcall = "resolution_score"
    /\ Exists(qfile) /\ PilOpens(qfile)
    /\ qfile.w = 128 /\ qfile.h = 128
    /\ qout.tag = "ok" /\ qout.value = 25 * 100

\* C10 as claimed: the fallback analyzer never raises, and its result
\* always carries a blur score and a blur assessment, also for a file that
\* cannot be opened or converted.
C10_FallbackAlwaysSignals ==
    qcall = "fallback_analyze_image_quality" =>
        /\ qout.tag = "ok"
        /\ {"blur_score", "blur_assessment"} \subseteq DOMAIN qout.value

\* C10 amended: the fallback analyzer never raises; its result carries a
\* blur score and a blur assessment (Sharp above 100, Blurry below 50,
\* Moderate between) when the file can be opened and converted to
\* grayscale, and only an error field otherwise.
C10_FallbackNeverRaises ==
    qcall = "fallback_analyze_image_quality" =>
        /\ qout.tag = "ok"
        /\ IF Exists(qfile) /\ PilOpens(qfile) /\ PilLoads(qfile)
           THEN /\ {"blur_score", "blur_assessment"} \subseteq DOMAIN qout.value
                /\ "error" \notin DOMAIN qout.value
                /\ qout.value.blur_score = qfile.pvar
                /\ qout.value.blur_assessment = "Sharp" <=> qfile.pvar > 100
                /\ qout.value.blur_assessment = "Blurry" <=> qfile.pvar < 50
                /\ qout.value.blur_assessment \in {"Sharp", "Blurry", "Moderate"}
           ELSE DOMAIN qout.value = {"error"}

\* the fallback has returned an error-only result for a file whose pixels
\* cannot be loaded
C10_Witness ==
    /\ qcall = "fallback_analyze_image_quality"
    /\ Exists(qfile) /\ PilVerifies(qfile) /\ ~PilLoads(qfile)
    /\ qout.tag = "ok"
    /\ DOMAIN qout.value = {"error"}

----------------------------------------------------------------------------
(* Claims about the background remover (Spec)                              *)

Removers == {"remove_bg", "show_background_removal"}

\* thread t is about to call remove_background
AtRemover(t) == req[t].pc = "process" /\ req[t].handler \in Removers

\* C11: remove_background raises FileNotFoundError, unwrapped, when the
\* input path does not exist, and then leaves the output path as it was;
\* when rembg fails, the failure is raised again as an Exception whose
\* message starts with 'Failed to remove background' and the output path is
\* not written; the output path is written only when rembg has returned.
C11_RemoverContract ==
    \A t \in Threads : \A delegateOk \in BOOLEAN :
        AtRemover(t) =>
            LET input == FileAt(fs, req[t].inTemp)
                out == remove_background(fs, req[t].id, req[t].inTemp, req[t].outTemp,
                                         delegateOk)
                written == out.dir[req[t].outTemp] # fs[req[t].outTemp]
                delegateFails == Exists(input) /\ ~(PilLoads(input) /\ delegateOk)
            IN  /\ ~PathExists(fs, req[t].inTemp) =>
                      /\ out.res.tag = "raise"
                      /\ out.res.exc = "FileNotFoundError"
                      /\ Head(out.res.msg) # "Failed to remove background: "
                      /\ out.dir = fs
                /\ delegateFails =>
                      /\ out.res.tag = "raise"
                      /\ out.res.exc = "Exception"
                      /\ Head(out.res.msg) = "Failed to remove background: "
                      /\ ~written
                /\ written => (out.res.tag = "ok" /\ ~delegateFails /\ Exists(input))
                /\ out.res.tag = "ok" => FileAt(out.dir, req[t].outTemp) = Cutout(input)

\* remove_background has been called on a missing input and on an input
\* rembg failed on, in two requests, and both output files are still the
\* empty files the handlers created
C11_Witness ==
    \E t, o \in Threads :
        /\ Did(t, "remover") /\ Did(o, "remover")
        /\ req[t].pending.tag = "raise" /\ req[t].pending.exc = "FileNotFoundError"
        /\ req[o].pending.tag = "raise" /\ req[o].pending.exc = "Exception"
        /\ PathExists(fs, req[t].outTemp) /\ FileAt(fs, req[t].outTemp).kind = "empty"
        /\ PathExists(fs, req[o].outTemp) /\ FileAt(fs, req[o].outTemp).kind = "empty"

----------------------------------------------------------------------------
(* Claims about concurrent requests (Spec)                                 *)

\* the temp file names request t holds
TempsOf(t) == {req[t].inTemp, req[t].outTemp} \ {0}

\* what a temp file of a request with upload u can hold
OwnData(u) == {u.data, EmptyData, Cutout(u.data)}

\* what the analyzer the page uses makes of file f
UiAnalyzer(f) ==
    IF avail.analysis THEN analyze_image_quality(f) ELSE fallback_analyze_image_quality(f)

\* the bodies a successful response to upload u from handler h can have:
\* the result for the uploaded bytes, or, where the analyzer reports a
\* missing file as a result, the result for a staged file that was lost
OwnResults(h, u) ==
    IF h = "analyze_image"
    THEN LET res == analyze_image_quality(u.data)
         IN  IF res.tag # "ok" THEN {}
             ELSE {[resolution_score |-> res.value.resolution_score,
                    is_blurry |-> res.value.is_blurry,
                    blur_score |-> res.value.blur_score,
                    clarity |-> res.value.clarity,
                    filename |-> secure_filename(u.filename), status |-> "success"]}
    ELSE IF h = "remove_bg"
    THEN {[attachment |-> Cutout(u.data),
           download_name |-> <<"n","o","_","b","g","_">> \o secure_filename(u.filename)
                               \o <<".","p","n","g">>]}
    ELSE IF h = "show_image_analysis"
    THEN {[message |-> "Analysis completed!", results |-> UiAnalyzer(f).value] :
             f \in {g \in {u.data, Absent} : UiAnalyzer(g).tag = "ok"}}
    ELSE {[message |-> "Background removal completed!",
           image |-> Cutout(u.data), download |-> Cutout(u.data)]}

\* requests in flight hold different names; what lies at a request's names
\* is that request's own file with that request's own bytes; a successful
\* response is the result for the request's own upload
NoSharing ==
    /\ \A t, o \in Threads :
          (t # o /\ InFlight(t) /\ InFlight(o)) => TempsOf(t) \cap TempsOf(o) = {}
    /\ \A t \in Threads : \A n \in TempsOf(t) :
          (InFlight(t) /\ PathExists(fs, n)) =>
              /\ fs[n].creator = req[t].id
              /\ fs[n].data \in OwnData(req[t].upload)
    /\ \A t \in Threads :
          (Done(t) /\ req[t].resp[Len(req[t].resp)].class = "success") =>
              req[t].resp[Len(req[t].resp)].body \in OwnResults(req[t].handler, req[t].upload)

\* a step of a request writes and deletes only files of that request, and
\* changes no other request
OwnFilesOnly ==
    \A t \in Threads :
        req'[t] # req[t] =>
            /\ \A o \in Threads \ {t} : req'[o] = req[o]
            /\ \A n \in Names :
                  fs'[n] # fs[n] =>
                      IF PathExists(fs, n) THEN fs[n].creator = req[t].id
                      ELSE fs'[n].creator = req[t].id

\* C12: however two or more requests interleave, none affects another: the
\* temp files of requests in flight have different names, a request's
\* cleanup deletes only files the same request created, and each response
\* is derived from the request's own uploaded bytes only.
C12_NoRequestAffectsAnother == []NoSharing /\ [][OwnFilesOnly]_vars

\* two requests with different uploads were in flight together; one has
\* finished with a successful response and deleted its staged upload, and
\* the other's staged upload is still on disk
C12_Witness ==
    \E t, o \in Threads :
        /\ t # o
        /\ req[t].upload.data # req[o].upload.data
        /\ Done(t) /\ Did(t, "unlink_input")
        /\ req[t].resp[Len(req[t].resp)].class = "success"
        /\ req[o].pc = "cleanup" /\ Did(o, "staged")
        /\ PathExists(fs, req[o].inTemp)
        /\ req[o].id < req[t].id

----------------------------------------------------------------------------
(* Claims about the order of a request's steps (Spec)                      *)

\* in log l, step a comes before every step b
Before(l, a, b) ==
    \A j \in DOMAIN l : l[j] = b => \E i \in 1..(j - 1) : l[i] = a

\* in log l, none of the steps es comes after step a
NotAfter(l, es, a) ==
    \A i \in DOMAIN l : l[i] = a => \A j \in (i + 1)..Len(l) : l[j] \notin es

\* in log l, step e comes at most once
AtMostOnce(l, e) ==
    \A i \in DOMAIN l : l[i] = e => \A j \in (i + 1)..Len(l) : l[j] # e

ProcessorSteps == {"analyzer", "remover"}
DecodeSteps == {"decode_ok", "decode_fail"}
UnlinkSteps == {"unlink_input", "unlink_output"}
ChecksAndStaging == {"decode_ok", "decode_fail", "staged"}
StepsBeforeUnlink == {"ext_ok", "decode_ok", "decode_fail", "staged", "analyzer", "remover"}
StepsBeforeResponse == StepsBeforeUnlink \cup UnlinkSteps

\* what holds of the order in every handler's log: the extension check
\* first, the processor only after a decodability check that returned true
\* and after staging, each at most once, the unlinks after all of these,
\* the response last
CommonOrder(l) ==
    /\ \A e \in ChecksAndStaging : Before(l, "ext_ok", e)
    /\ \A e \in ProcessorSteps :
          /\ Before(l, "decode_ok", e)
          /\ Before(l, "staged", e)
          /\ AtMostOnce(l, e)
          /\ NotAfter(l, {e}, "decode_fail")
    /\ \A e \in UnlinkSteps :
          /\ Before(l, "staged", e)
          /\ NotAfter(l, StepsBeforeUnlink, e)
    /\ NotAfter(l, StepsBeforeResponse, "respond")
    /\ AtMostOnce(l, "staged")

OrderByHandler(t) ==
    LET l == req[t].log
    IN  /\ CommonOrder(l)
        /\ req[t].handler \in UiHandlers =>
              /\ Before(l, "decode_ok", "staged")
              /\ NotAfter(l, {"staged"}, "decode_fail")
        /\ req[t].handler \in ApiHandlers =>
              \A e \in DecodeSteps : Before(l, "staged", e)

====
